---- MODULE Spec2Model ----
(***************************************************************************)
(* Model of src/src/main.rs: a command-line program that reads a file of   *)
(* key:"value" pairs with a hand-written scanner (parse_event_data,        *)
(* parse_key, parse_value), derives a fifth value from four of the parsed  *)
(* values (figure_fifth_value) and prints the mapping.                     *)
(*                                                                         *)
(* A character is a one-character string, or, for a character that has no  *)
(* TLA+ string escape, the string of its code point ("U+2003"). A text is  *)
(* a sequence of characters, and the mapping (serde_json::Map) is a set of *)
(* <<key,value>> pairs with at most one pair per key.                      *)
(***************************************************************************)
EXTENDS Integers, Sequences, FiniteSets, TLC

VARIABLES
    argv,     \* what env::args() met: "unread", "unicode", "not_unicode"
    argc,     \* args.len() seen by main, 0 while main has not seen it
    file,     \* what File::open / read_to_string met: "unopened", "ok", "missing", "unreadable"
    doc,      \* how the file's text was written: a document of pairs, or NoDoc for raw text
    data,     \* the text read from the file
    pos,      \* the cursor `it`: index of the character peek() returns
    pc,       \* position in the program
    key,      \* parse_key's accumulator
    value,    \* parse_value's accumulator
    vstart,   \* index of the first character after the opening quote of the value being scanned
    pairs,    \* parse_event_data's mapping
    err,      \* the ParseError returned, or NoError
    object,   \* main's `object`, or NoObject before parse_event_data returned Ok
    stderrCond, \* what the eprintln! writes met: "unused", "writable", "closed", "failing"
    stdoutCond, \* what the println! write met: "unused", "writable", "closed", "failing"
    stderr,   \* the debug lines figure_fifth_value got onto stderr, the last one maybe in part
    stdout,   \* the document println! got onto stdout, whole or in part, or NoObject
    stdoutPart, \* how much of the document is on stdout: "nothing", "part", "all"
    outcome   \* "running", "exit0", "exit1" (main returned Err), "panic"

vars == <<argv, argc, file, doc, data, pos, pc, key, value, vstart, pairs, err, object,
          stderrCond, stdoutCond, stderr, stdout, stdoutPart, outcome>>

----------------------------------------------------------------------------
(* Characters *)

Quote == "\""
Backslash == "\\"
Colon == ":"
NoChar == "None"
\* char::is_whitespace: the characters with the Unicode property White_Space,
\* U+0009..U+000D, U+0020, U+0085, U+00A0, U+1680, U+2000..U+200A, U+2028, U+2029,
\* U+202F, U+205F and U+3000
WhitespaceChars ==
    {"\t", "\n", "U+000B", "\f", "\r", " ", "U+0085", "U+00A0", "U+1680",
     "U+2000", "U+2001", "U+2002", "U+2003", "U+2004", "U+2005", "U+2006", "U+2007",
     "U+2008", "U+2009", "U+200A", "U+2028", "U+2029", "U+202F", "U+205F", "U+3000"}

IsWhitespace(c) == c \in WhitespaceChars

Peek(d, p) == IF p >= 1 /\ p <= Len(d) THEN d[p] ELSE NoChar

----------------------------------------------------------------------------
(* The mapping *)

EmptyMap == {}

MapKeys(m) == {e[1] : e \in m}

MapGet(m, k) == (CHOOSE e \in m : e[1] = k)[2]

\* MapInsert as it would be if an existing entry were kept instead of overwritten
MapInsertKeepFirst(m, k, v) == IF k \in MapKeys(m) THEN m ELSE m \cup {<<k, v>>}

MapInsert(m, k, v) == {e \in m : e[1] # k} \cup {<<k, v>>}

----------------------------------------------------------------------------
(* The scanner, as a step function on the scanner's state *)

NoError == "NoError"

RECURSIVE SkipLeadingWhitespace(_, _)
SkipLeadingWhitespace(d, p) ==
    IF Peek(d, p) # NoChar /\ IsWhitespace(Peek(d, p))
    THEN SkipLeadingWhitespace(d, p + 1)
    ELSE p

Fail(s, e) == [s EXCEPT !.pc = "failed", !.err = e]

\* TopStep as it would be without its whitespace test, leaving the skipping to parse_key
TopStepNoSkip(d, s) ==
    IF Peek(d, s.pos) = NoChar THEN [s EXCEPT !.pc = "parsed"]
    ELSE [s EXCEPT !.pc = "key_enter"]

\* TopStep as it would be if a whitespace character were peeked but not consumed
TopStepNoAdvance(d, s) ==
    LET c == Peek(d, s.pos) IN
    IF c = NoChar THEN [s EXCEPT !.pc = "parsed"]
    ELSE IF IsWhitespace(c) THEN s
    ELSE [s EXCEPT !.pc = "key_enter"]

\* parse_event_data's loop head: one test of `while let Some(&c) = it.peek()`
TopStep(d, s) ==
    LET c == Peek(d, s.pos) IN
    IF c = NoChar THEN [s EXCEPT !.pc = "parsed"]
    ELSE IF IsWhitespace(c) THEN [s EXCEPT !.pos = @ + 1]
    ELSE [s EXCEPT !.pc = "key_enter"]

\* parse_key up to its loop
KeyEnter(d, s) ==
    [s EXCEPT !.pos = SkipLeadingWhitespace(d, s.pos), !.key = <<>>, !.pc = "key"]

\* KeyStep as it would be if the loop ran to the end of the input without the test after it
KeyStepNoEndTest(d, s) ==
    LET c == Peek(d, s.pos) IN
    IF c = NoChar THEN [s EXCEPT !.pc = "value_enter"]
    ELSE IF c = Colon
         THEN [s EXCEPT !.pos = @ + 1, !.pc = "value_enter"]
         ELSE [s EXCEPT !.key = Append(@, c), !.pos = @ + 1]

\* KeyStep as it would be if the colon were pushed to the key before the loop ends
KeyStepKeepColon(d, s) ==
    LET c == Peek(d, s.pos) IN
    IF c = NoChar THEN Fail(s, "InvalidKey")
    ELSE IF c = Colon
         THEN IF Peek(d, s.pos + 1) = NoChar
              THEN Fail([s EXCEPT !.key = Append(@, c), !.pos = @ + 1], "InvalidKey")
              ELSE [s EXCEPT !.key = Append(@, c), !.pos = @ + 1, !.pc = "value_enter"]
         ELSE [s EXCEPT !.key = Append(@, c), !.pos = @ + 1]

\* KeyStep as it would be if whitespace in the key were dropped
KeyStepDropWhitespace(d, s) ==
    LET c == Peek(d, s.pos) IN
    IF c = NoChar THEN Fail(s, "InvalidKey")
    ELSE IF c = Colon
         THEN IF Peek(d, s.pos + 1) = NoChar
              THEN Fail([s EXCEPT !.pos = @ + 1], "InvalidKey")
              ELSE [s EXCEPT !.pos = @ + 1, !.pc = "value_enter"]
         ELSE IF IsWhitespace(c) THEN [s EXCEPT !.pos = @ + 1]
         ELSE [s EXCEPT !.key = Append(@, c), !.pos = @ + 1]

\* one iteration of parse_key's loop, and what follows the loop when it ends
KeyStep(d, s) ==
    LET c == Peek(d, s.pos) IN
    IF c = NoChar THEN Fail(s, "InvalidKey")
    ELSE IF c = Colon
         THEN IF Peek(d, s.pos + 1) = NoChar
              THEN Fail([s EXCEPT !.pos = @ + 1], "InvalidKey")
              ELSE [s EXCEPT !.pos = @ + 1, !.pc = "value_enter"]
         ELSE [s EXCEPT !.key = Append(@, c), !.pos = @ + 1]

\* parse_value up to its loop: the opening quote
ValueEnter(d, s) ==
    LET p == SkipLeadingWhitespace(d, s.pos) IN
    IF Peek(d, p) = Quote
    THEN [s EXCEPT !.pos = p + 1, !.value = <<>>, !.vstart = p + 1, !.pc = "value"]
    ELSE Fail([s EXCEPT !.pos = p], "InvalidValue")

\* ValueStep as it would be if any escaped character were accepted
ValueStepAnyEscape(d, s) ==
    LET c == Peek(d, s.pos) IN
    IF c = NoChar THEN [s EXCEPT !.pc = "value_eof"]
    ELSE IF c = Quote THEN [s EXCEPT !.pos = @ + 1, !.pc = "value_closed"]
    ELSE IF c = Backslash
         THEN IF Peek(d, s.pos + 1) # NoChar
              THEN [s EXCEPT !.value = Append(@, Peek(d, s.pos + 1)), !.pos = @ + 2]
              ELSE Fail([s EXCEPT !.pos = @ + 1], "InvalidValue")
         ELSE [s EXCEPT !.value = Append(@, c), !.pos = @ + 1]

\* ValueStep as it would be if the backslash of an escape were pushed too
ValueStepKeepBackslash(d, s) ==
    LET c == Peek(d, s.pos) IN
    IF c = NoChar THEN [s EXCEPT !.pc = "value_eof"]
    ELSE IF c = Quote THEN [s EXCEPT !.pos = @ + 1, !.pc = "value_closed"]
    ELSE IF c = Backslash
         THEN IF Peek(d, s.pos + 1) = Quote
              THEN [s EXCEPT !.value = @ \o <<Backslash, Quote>>, !.pos = @ + 2]
              ELSE Fail([s EXCEPT !.pos = @ + 1], "InvalidValue")
         ELSE [s EXCEPT !.value = Append(@, c), !.pos = @ + 1]

\* ValueStep as it would be without the escape handling: a backslash is a character like any other
ValueStepNoEscape(d, s) ==
    LET c == Peek(d, s.pos) IN
    IF c = NoChar THEN [s EXCEPT !.pc = "value_eof"]
    ELSE IF c = Quote THEN [s EXCEPT !.pos = @ + 1, !.pc = "value_closed"]
    ELSE [s EXCEPT !.value = Append(@, c), !.pos = @ + 1]

\* one iteration of parse_value's loop
ValueStep(d, s) ==
    LET c == Peek(d, s.pos) IN
    IF c = NoChar THEN [s EXCEPT !.pc = "value_eof"]
    ELSE IF c = Quote THEN [s EXCEPT !.pos = @ + 1, !.pc = "value_closed"]
    ELSE IF c = Backslash
         THEN IF Peek(d, s.pos + 1) = Quote
              THEN [s EXCEPT !.value = Append(@, Quote), !.pos = @ + 2]
              ELSE Fail([s EXCEPT !.pos = @ + 1], "InvalidValue")
         ELSE [s EXCEPT !.value = Append(@, c), !.pos = @ + 1]

\* parse_value returns Ok(value); parse_event_data inserts the pair
InsertStep(d, s) ==
    [s EXCEPT !.pairs = MapInsert(@, s.key, s.value),
              !.key = <<>>, !.value = <<>>, !.vstart = 0, !.pc = "top"]

ScanStart == [pos |-> 1, pc |-> "top", key |-> <<>>, value |-> <<>>, vstart |-> 0,
              pairs |-> EmptyMap, err |-> NoError]

Step(d, s) ==
    CASE s.pc = "top" -> TopStep(d, s)
      [] s.pc = "key_enter" -> KeyEnter(d, s)
      [] s.pc = "key" -> KeyStep(d, s)
      [] s.pc = "value_enter" -> ValueEnter(d, s)
      [] s.pc = "value" -> ValueStep(d, s)
      [] s.pc \in {"value_closed", "value_eof"} -> InsertStep(d, s)
      [] OTHER -> s

RECURSIVE Run(_, _)
Run(d, s) == IF s.pc \in {"parsed", "failed"} THEN s ELSE Run(d, Step(d, s))

\* parse_event_data on a text: the final scanner state
ParseText(d) == Run(d, ScanStart)

----------------------------------------------------------------------------
(* figure_fifth_value *)

XOR_KEY == 383
U16Max == 65535
SurrogateLow == 55296
SurrogateHigh == 57343
Panic == -1

HexLower == <<"0", "1", "2", "3", "4", "5", "6", "7", "8", "9", "a", "b", "c", "d", "e", "f">>
HexUpper == <<"0", "1", "2", "3", "4", "5", "6", "7", "8", "9", "A", "B", "C", "D", "E", "F">>

\* char::to_digit(16): 0..15, or -1 for a character that is no hexadecimal digit
HexDigit(c) ==
    IF \E i \in 1..16 : HexLower[i] = c THEN (CHOOSE i \in 1..16 : HexLower[i] = c) - 1
    ELSE IF \E i \in 1..16 : HexUpper[i] = c THEN (CHOOSE i \in 1..16 : HexUpper[i] = c) - 1
    ELSE -1

RECURSIVE TrimStartMatches0x(_)
TrimStartMatches0x(s) ==
    IF Len(s) >= 2 /\ s[1] = "0" /\ s[2] = "x"
    THEN TrimStartMatches0x(SubSeq(s, 3, Len(s)))
    ELSE s

RECURSIVE HexAccumulate(_, _)
HexAccumulate(s, acc) ==
    IF s = <<>> THEN acc
    ELSE IF HexDigit(Head(s)) < 0 THEN Panic
    ELSE IF (acc * 16) + HexDigit(Head(s)) > U16Max THEN Panic
    ELSE HexAccumulate(Tail(s), (acc * 16) + HexDigit(Head(s)))

\* u16::from_str_radix(s, 16): the number, or Panic where the code's unwrap_or_else panics
FromStrRadix16(s) ==
    IF s = <<>> THEN Panic
    ELSE IF Head(s) = "+"
         THEN IF Len(s) = 1 THEN Panic ELSE HexAccumulate(Tail(s), 0)
         ELSE HexAccumulate(s, 0)

RECURSIVE Xor(_, _)
Xor(a, b) ==
    IF a = 0 /\ b = 0 THEN 0
    ELSE (((a % 2) + (b % 2)) % 2) + 2 * Xor(a \div 2, b \div 2)

RECURSIVE TrailingZeros(_, _)
TrailingZeros(x, width) ==
    IF width = 0 THEN 0
    ELSE IF x % 2 = 1 THEN 0
    ELSE 1 + TrailingZeros(x \div 2, width - 1)

\* IndexOfFirstMismatchingBit as it would be with the index counted from 0
IndexOfFirstMismatchingBitFromZero(a, b) == TrailingZeros(Xor(a, b), 16)

IndexOfFirstMismatchingBit(a, b) == TrailingZeros(Xor(a, b), 16) + 1

\* char::from_u32(x).expect(..): a surrogate code point is no char
IsChar(x) == ~(x >= SurrogateLow /\ x <= SurrogateHigh)

KeyOne == <<"o", "n", "e">>
KeyTwo == <<"t", "w", "o">>
KeyThree == <<"t", "h", "r", "e", "e">>
KeyFour == <<"f", "o", "u", "r">>
KeyFive == <<"f", "i", "v", "e">>
FigureKeys == <<KeyOne, KeyTwo, KeyThree, KeyFour>>

\* one pass of the loop over the four keys: value_xor, or Panic
FigureValue(m, k) ==
    IF k \notin MapKeys(m) THEN Panic
    ELSE LET v == FromStrRadix16(TrimStartMatches0x(MapGet(m, k))) IN
         IF v = Panic THEN Panic
         ELSE IF ~IsChar(Xor(v, XOR_KEY)) THEN Panic
         ELSE Xor(v, XOR_KEY)

\* figure_fifth_value: the u16 returned, or Panic. overflowChecks is the build's
\* setting: with it u16 addition panics on overflow, without it the sum wraps.
FigureFifthValue(m, overflowChecks) ==
    IF \E i \in 1..4 : FigureValue(m, FigureKeys[i]) = Panic THEN Panic
    ELSE LET three == FigureValue(m, KeyThree)
             four == FigureValue(m, KeyFour)
             sum == four + (IndexOfFirstMismatchingBit(three, four) * 4)
         IN  IF sum > U16Max
             THEN IF overflowChecks THEN Panic ELSE Xor(sum % (U16Max + 1), XOR_KEY)
             ELSE Xor(sum, XOR_KEY)

\* what the writes to a standard stream can meet: the stream takes them all, the
\* descriptor is closed (std's stdout and stderr take a write to it for done), or
\* a write fails
StreamConds == {"writable", "closed", "failing"}

\* on a failing stderr, the eprintln! calls the stream takes before the one that fails
StderrTaken == 0..(Len(FigureKeys) - 1)

\* the arguments of the eprintln! of the pass for key k; whole is FALSE for a line
\* of which only a part, or nothing, got written before the write failed
DebugLine(m, k, whole) ==
    [key |-> k,
     value_str |-> MapGet(m, k),
     value |-> FromStrRadix16(TrimStartMatches0x(MapGet(m, k))),
     value_xor |-> FigureValue(m, k),
     whole |-> whole]

\* the passes of the loop that get past their eprintln!: a pass that panics before
\* it, or whose eprintln! panics on a failed write, ends the loop
RECURSIVE PassesDone(_, _, _, _)
PassesDone(m, cond, taken, i) ==
    IF i > Len(FigureKeys) THEN Len(FigureKeys)
    ELSE IF FigureValue(m, FigureKeys[i]) = Panic THEN i - 1
    ELSE IF cond = "failing" /\ i > taken THEN i - 1
    ELSE PassesDone(m, cond, taken, i + 1)

\* the loop ended in an eprintln! whose write failed
WriteFailed(m, cond, taken) ==
    LET n == PassesDone(m, cond, taken, 1) IN
    /\ cond = "failing"
    /\ n < Len(FigureKeys)
    /\ FigureValue(m, FigureKeys[n + 1]) # Panic

\* what the eprintln! calls that were made met
StderrMet(m, cond, taken) ==
    IF WriteFailed(m, cond, taken) THEN "failing"
    ELSE IF PassesDone(m, cond, taken, 1) = 0 THEN "unused"
    ELSE IF cond = "closed" THEN "closed"
    ELSE "writable"

\* what figure_fifth_value leaves on stderr: the lines of the passes done and, when
\* the next write failed part-way through its line, that line in part
DebugLines(m, cond, taken, part) ==
    LET n == PassesDone(m, cond, taken, 1) IN
    IF cond = "closed" THEN <<>>
    ELSE [i \in 1..n |-> DebugLine(m, FigureKeys[i], TRUE)]
         \o (IF WriteFailed(m, cond, taken) /\ part
             THEN <<DebugLine(m, FigureKeys[n + 1], FALSE)>>
             ELSE <<>>)

\* how much of the document a println! whose write fails can leave on stdout
StdoutParts == {"nothing", "part", "all"}

RECURSIVE ToHex(_)
ToHex(n) == IF n < 16 THEN <<HexLower[n + 1]>> ELSE Append(ToHex(n \div 16), HexLower[(n % 16) + 1])

\* format!("0x{:x}", fifth_value)
FormatFifth(n) == <<"0", "x">> \o ToHex(n)

----------------------------------------------------------------------------
(* The files the program is run on *)

MaxLen == 5
MaxPairs == 2

NoDoc == [items |-> <<>>, tail |-> <<"raw">>]
NoObject == {<<"NoObject">>}

RawChars == {"a", " ", Colon, Quote, Backslash}
RawTexts == UNION {[1..n -> RawChars] : n \in 0..MaxLen}

\* escaping of a value for writing it between quotes
RECURSIVE EscapeValue(_)
EscapeValue(v) ==
    IF v = <<>> THEN <<>>
    ELSE (IF Head(v) = Quote THEN <<Backslash, Quote>> ELSE <<Head(v)>>) \o EscapeValue(Tail(v))

RenderPair(k, v) == k \o <<Colon, Quote>> \o EscapeValue(v) \o <<Quote>>

RECURSIVE RenderItems(_)
RenderItems(items) ==
    IF items = <<>> THEN <<>>
    ELSE Head(items).ws \o RenderPair(Head(items).k, Head(items).v) \o RenderItems(Tail(items))

RenderDoc(dc) == RenderItems(dc.items) \o dc.tail

DocWs == {<<>>, <<"\r", "\n">>}
DocKeys == {<<>>, <<"a">>, <<"b", " ">>}
DocVals == {<<>>, <<"1", Colon>>, <<Quote, " ">>}
DocItems == [ws : DocWs, k : DocKeys, v : DocVals]
Docs == [items : UNION {[1..n -> DocItems] : n \in 0..MaxPairs}, tail : DocWs]

PuzzleItem(k, v) == [ws |-> <<" ">>, k |-> k, v |-> v]
PuzzleOne == {<<"0", "x", "1", "5", "4">>, <<"g">>}
PuzzleTwo == {<<"0", "x", "1", "5", "0">>, <<"0", "x", "d", "9", "7", "f">>}
PuzzleThree == {<<"0", "x", "1", "4", "A">>, <<"0", "x", "f", "e", "8", "0">>}
PuzzleFour == {<<"0", "x", "1", "4", "4">>, <<"0", "x", "f", "e", "8", "0">>}
PuzzleDocs ==
    {[items |-> <<PuzzleItem(KeyOne, a), PuzzleItem(KeyTwo, b),
                  PuzzleItem(KeyThree, c), PuzzleItem(KeyFour, e)>>,
      tail |-> <<"U+3000", "\n">>] :
        a \in PuzzleOne, b \in PuzzleTwo, c \in PuzzleThree, e \in PuzzleFour}

ArgLens == {1, 2, 3}
FileStates == {"ok", "missing", "unreadable"}

----------------------------------------------------------------------------
(* The program *)

Cur == [pos |-> pos, pc |-> pc, key |-> key, value |-> value, vstart |-> vstart,
        pairs |-> pairs, err |-> err]

Apply(s) ==
    /\ pos' = s.pos
    /\ pc' = s.pc
    /\ key' = s.key
    /\ value' = s.value
    /\ vstart' = s.vstart
    /\ pairs' = s.pairs
    /\ err' = s.err

Init ==
    /\ argv = "unread"
    /\ argc = 0
    /\ file = "unopened"
    /\ doc = NoDoc
    /\ data = <<>>
    /\ pos = 1
    /\ pc = "start"
    /\ key = <<>>
    /\ value = <<>>
    /\ vstart = 0
    /\ pairs = EmptyMap
    /\ err = NoError
    /\ object = NoObject
    /\ stderrCond = "unused"
    /\ stdoutCond = "unused"
    /\ stderr = <<>>
    /\ stdout = NoObject
    /\ stdoutPart = "nothing"
    /\ outcome = "running"

\* main: env::args().collect(), which panics on an argument that is not valid
\* Unicode, then assert_eq!(args.len(), 2, ..)
MainArgs ==
    /\ pc = "start"
    /\ \/ /\ argv' = "not_unicode"
          /\ argc' = argc
          /\ pc' = "exit"
          /\ outcome' = "panic"
       \/ /\ argv' = "unicode"
          /\ \E n \in ArgLens :
              /\ argc' = n
              /\ IF n = 2
                 THEN pc' = "open" /\ outcome' = outcome
                 ELSE pc' = "exit" /\ outcome' = "panic"
    /\ UNCHANGED <<file, doc, data, pos, key, value, vstart, pairs, err, object, stderrCond, stdoutCond, stderr, stdout, stdoutPart>>

\* parse_event_data: File::open(file_path).expect(..)
OpenFile ==
    /\ pc = "open"
    /\ \E st \in FileStates :
        /\ file' = st
        /\ IF st = "missing"
           THEN pc' = "exit" /\ outcome' = "panic"
           ELSE pc' = "read" /\ outcome' = outcome
    /\ UNCHANGED <<argv, argc, doc, data, pos, key, value, vstart, pairs, err, object, stderrCond, stdoutCond, stderr, stdout, stdoutPart>>

\* parse_event_data: file.read_to_string(&mut data)?, then the cursor and the mapping
ReadFile ==
    /\ pc = "read"
    /\ IF file = "unreadable"
       THEN /\ pc' = "exit"
            /\ outcome' = "exit1"
            /\ UNCHANGED <<doc, data>>
       ELSE /\ \/ \E t \in RawTexts : data' = t /\ doc' = NoDoc
               \/ \E dc \in Docs \cup PuzzleDocs : data' = RenderDoc(dc) /\ doc' = dc
            /\ pc' = "top"
            /\ outcome' = outcome
    /\ UNCHANGED <<argv, argc, file, pos, key, value, vstart, pairs, err, object, stderrCond, stdoutCond, stderr, stdout, stdoutPart>>

ParseEventDataLoop ==
    /\ pc = "top"
    /\ Apply(TopStep(data, Cur))
    /\ UNCHANGED <<argv, argc, file, doc, data, object, stderrCond, stdoutCond, stderr, stdout, stdoutPart, outcome>>

ParseKeyEnter ==
    /\ pc = "key_enter"
    /\ Apply(KeyEnter(data, Cur))
    /\ UNCHANGED <<argv, argc, file, doc, data, object, stderrCond, stdoutCond, stderr, stdout, stdoutPart, outcome>>

ParseKeyLoop ==
    /\ pc = "key"
    /\ Apply(KeyStep(data, Cur))
    /\ UNCHANGED <<argv, argc, file, doc, data, object, stderrCond, stdoutCond, stderr, stdout, stdoutPart, outcome>>

ParseValueEnter ==
    /\ pc = "value_enter"
    /\ Apply(ValueEnter(data, Cur))
    /\ UNCHANGED <<argv, argc, file, doc, data, object, stderrCond, stdoutCond, stderr, stdout, stdoutPart, outcome>>

ParseValueLoop ==
    /\ pc = "value"
    /\ Apply(ValueStep(data, Cur))
    /\ UNCHANGED <<argv, argc, file, doc, data, object, stderrCond, stdoutCond, stderr, stdout, stdoutPart, outcome>>

InsertPair ==
    /\ pc \in {"value_closed", "value_eof"}
    /\ Apply(InsertStep(data, Cur))
    /\ UNCHANGED <<argv, argc, file, doc, data, object, stderrCond, stdoutCond, stderr, stdout, stdoutPart, outcome>>

\* ParseFailed as it would be if main printed the pairs read so far before returning the error
ParseFailedPrintsPairs ==
    /\ pc = "failed"
    /\ pc' = "exit"
    /\ outcome' = "exit1"
    /\ stdout' = pairs
    /\ stdoutPart' = "all"
    /\ UNCHANGED <<argv, argc, file, doc, data, pos, key, value, vstart, pairs, err, object,
                   stderrCond, stdoutCond, stderr>>

\* main: parse_event_data(path)? returned Err, main returns it
ParseFailed ==
    /\ pc = "failed"
    /\ pc' = "exit"
    /\ outcome' = "exit1"
    /\ UNCHANGED <<argv, argc, file, doc, data, pos, key, value, vstart, pairs, err, object, stderrCond, stdoutCond, stderr, stdout, stdoutPart>>

\* main: object = parse_event_data(path)?, figure_fifth_value(&object) with the
\* eprintln! of each pass of its loop, map.insert("five", ..). An eprintln! panics
\* when its write fails.
FigureFifth ==
    /\ pc = "parsed"
    /\ \E overflowChecks \in BOOLEAN, cond \in StreamConds, taken \in StderrTaken, part \in BOOLEAN :
        LET fifth == FigureFifthValue(pairs, overflowChecks) IN
        /\ stderrCond' = StderrMet(pairs, cond, taken)
        /\ stderr' = DebugLines(pairs, cond, taken, part)
        /\ IF PassesDone(pairs, cond, taken, 1) < Len(FigureKeys) \/ fifth = Panic
           THEN /\ object' = pairs
                /\ pc' = "exit"
                /\ outcome' = "panic"
           ELSE /\ object' = MapInsert(pairs, KeyFive, FormatFifth(fifth))
                /\ pc' = "print"
                /\ outcome' = outcome
    /\ UNCHANGED <<argv, argc, file, doc, data, pos, key, value, vstart, pairs, err,
                   stdoutCond, stdout, stdoutPart>>

\* main: println!(serde_json::to_string_pretty(&object)?), Ok(()). On a closed
\* descriptor nothing is written and main returns Ok; println! panics when its
\* write fails, with nothing, a part or all of the document written before.
PrintDocument ==
    /\ pc = "print"
    /\ pc' = "exit"
    /\ \E cond \in StreamConds, part \in StdoutParts :
        /\ stdoutCond' = cond
        /\ stdoutPart' = CASE cond = "writable" -> "all"
                          [] cond = "closed" -> "nothing"
                          [] cond = "failing" -> part
        /\ stdout' = IF stdoutPart' = "nothing" THEN stdout ELSE object
        /\ outcome' = IF cond = "failing" THEN "panic" ELSE "exit0"
    /\ UNCHANGED <<argv, argc, file, doc, data, pos, key, value, vstart, pairs, err, object,
                   stderrCond, stderr>>

Next ==
    \/ MainArgs
    \/ OpenFile
    \/ ReadFile
    \/ ParseEventDataLoop
    \/ ParseKeyEnter
    \/ ParseKeyLoop
    \/ ParseValueEnter
    \/ ParseValueLoop
    \/ InsertPair
    \/ ParseFailed
    \/ FigureFifth
    \/ PrintDocument

Spec == Init /\ [][Next]_vars

----------------------------------------------------------------------------
(* Properties *)

ParseReturned == pc \in {"parsed", "failed"}

Range(t) == {t[i] : i \in 1..Len(t)}

\* the mapping a document of pairs stands for: for each key, the value of its last pair
LastValues(items) ==
    {<<items[i].k, items[i].v>> : i \in {j \in 1..Len(items) :
        \A l \in (j + 1)..Len(items) : items[l].k # items[j].k}}

\* C1: a text made of key:"value" pairs separated by any whitespace, or none, parses
\* successfully to the mapping that holds, for each distinct key, the value of its
\* last pair.
C1_WellFormedParsesToLastValues ==
    (doc # NoDoc /\ ParseReturned) =>
        /\ pc = "parsed"
        /\ err = NoError
        /\ pairs = LastValues(doc.items)

C1_Witness ==
    /\ pc = "parsed"
    /\ doc # NoDoc
    /\ Len(doc.items) = 2
    /\ doc.items[1].k = doc.items[2].k
    /\ doc.items[1].v # doc.items[2].v
    /\ doc.items[2].ws = <<>>
    /\ pairs = {<<doc.items[2].k, doc.items[2].v>>}

\* C2: when the input ends inside a quoted value, before the closing quote, the
\* parse fails with InvalidValue.
C2_UnterminatedValueFails ==
    [][(pc = "value" /\ Peek(data, pos) = NoChar) => (pc' = "failed" /\ err' = "InvalidValue")]_vars

\* C3: a key ended by ':' with no opening quote before the end of the input fails
\* with InvalidValue, and InvalidKey is reported only for a key that no ':' ends.
C3_ColonThenEndIsInvalidValue ==
    [][/\ (pc = "key" /\ Peek(data, pos) = Colon /\ pc' = "failed") => err' = "InvalidValue"
       /\ (pc = "value_enter" /\ pc' = "failed") => err' = "InvalidValue"
       /\ (err = NoError /\ err' = "InvalidKey") => (pc = "key" /\ Peek(data, pos) = NoChar)]_vars

NoColonFrom(d, p) == \A i \in p..Len(d) : d[i] # Colon

\* C4: a key that starts at a non-whitespace character with no ':' anywhere in the
\* rest of the input makes the parse fail with InvalidKey.
C4_KeyWithoutColonFails ==
    (pc \in {"key_enter", "key"} /\ NoColonFrom(data, pos)) =>
        /\ Run(data, Cur).pc = "failed"
        /\ Run(data, Cur).err = "InvalidKey"

C4_Witness ==
    /\ pc = "failed"
    /\ err = "InvalidKey"
    /\ pairs # EmptyMap
    /\ key # <<>>
    /\ pos = Len(data) + 1
    /\ NoColonFrom(data, pos - Len(key))

\* C5: inside a quoted value a backslash followed by anything but a quote, or by
\* the end of the input, makes the parse fail with InvalidValue.
C5_BadEscapeFails ==
    [][(pc = "value" /\ Peek(data, pos) = Backslash /\ Peek(data, pos + 1) # Quote)
        => (pc' = "failed" /\ err' = "InvalidValue")]_vars

C5_Witness ==
    /\ pc = "failed"
    /\ err = "InvalidValue"
    /\ vstart > 0
    /\ value # <<>>
    /\ Peek(data, pos - 1) = Backslash
    /\ Peek(data, pos) = "a"

\* the decoding the format defines: backslash-quote stands for a quote, every other
\* character for itself
RECURSIVE Unescape(_)
Unescape(t) ==
    IF t = <<>> THEN <<>>
    ELSE IF Len(t) >= 2 /\ t[1] = Backslash /\ t[2] = Quote
         THEN <<Quote>> \o Unescape(SubSeq(t, 3, Len(t)))
         ELSE <<t[1]>> \o Unescape(Tail(t))

\* C6: the value of a pair closed by a quote is the text between the opening quote
\* and that quote with every backslash-quote replaced by a quote and every other
\* character kept, and the closing quote is not an escaped one.
C6_ValueIsUnescapedText ==
    pc = "value_closed" =>
        /\ Peek(data, pos - 1) = Quote
        /\ value = Unescape(SubSeq(data, vstart, pos - 2))
        /\ ~(pos - 2 >= vstart /\ Peek(data, pos - 2) = Backslash)

C6_Witness ==
    /\ pc = "value_closed"
    /\ Quote \in Range(value)
    /\ Range(value) \cap (WhitespaceChars \cup {Colon}) # {}
    /\ Len(value) < pos - 1 - vstart

AllWhitespace(d) == \A i \in 1..Len(d) : IsWhitespace(d[i])

\* C7: an input of length zero or of whitespace only parses successfully to the
\* empty mapping.
C7_EmptyInputParsesToEmptyMap ==
    (ParseReturned /\ AllWhitespace(data)) =>
        /\ pc = "parsed"
        /\ err = NoError
        /\ pairs = EmptyMap

C7_Witness ==
    /\ pc = "parsed"
    /\ Len(data) >= 2
    /\ AllWhitespace(data)
    /\ pairs = EmptyMap

\* the orders the entries of a mapping can be written in
Orders(m) == {o \in [1..Cardinality(m) -> m] : \A i, j \in 1..Cardinality(m) : o[i] = o[j] => i = j}

RECURSIVE RenderEntries(_, _)
RenderEntries(o, sep) ==
    IF o = <<>> THEN <<>>
    ELSE RenderPair(Head(o)[1], Head(o)[2]) \o sep \o RenderEntries(Tail(o), sep)

\* C8: writing the entries of a parsed mapping as key:"value", quotes in the value
\* escaped, in any order and with or without whitespace between them, and parsing
\* that text gives the same mapping.
C8_RoundTrip ==
    pc = "parsed" =>
        \A o \in Orders(pairs) : \A sep \in DocWs :
            /\ ParseText(RenderEntries(o, sep)).pc = "parsed"
            /\ ParseText(RenderEntries(o, sep)).pairs = pairs

C8_Witness ==
    /\ pc = "parsed"
    /\ doc = NoDoc
    /\ Cardinality(pairs) = 1
    /\ \E e \in pairs : Quote \in Range(e[2])

\* no write to stderr or stdout failed, and stdout was not closed
StreamsTookWrites == stderrCond # "failing" /\ stdoutCond \notin {"closed", "failing"}

\* C9: with one argument, a readable file and a successful parse, the program
\* prints the document and exits zero (on streams that take what is written).
C9_SuccessPrintsAndExitsZero ==
    (pc = "exit" /\ argc = 2 /\ file = "ok" /\ err = NoError /\ StreamsTookWrites) =>
        (outcome = "exit0" /\ stdout # NoObject)

\* C10: a parse failure, a file that cannot be opened or an argument count other
\* than one ends the run abnormally, and no document is printed.
C10_FailureEndsAbnormallyAndPrintsNothing ==
    ((argc # 0 /\ argc # 2) \/ file = "missing" \/ err # NoError) =>
        /\ stdout = NoObject
        /\ pc = "exit" => outcome \in {"exit1", "panic"}

C10_Witness ==
    /\ pc = "exit"
    /\ err # NoError
    /\ pairs # EmptyMap
    /\ outcome = "exit1"
    /\ stdout = NoObject

\* the input of figure_fifth_value's doc comment
DocumentedPairs ==
    {<<KeyOne, <<"0", "x", "1", "5", "4">>>>, <<KeyTwo, <<"0", "x", "1", "5", "0">>>>,
     <<KeyThree, <<"0", "x", "1", "4", "A">>>>, <<KeyFour, <<"0", "x", "1", "4", "4">>>>}

\* C11: on the documented input the XOR-ed values are 43, 47, 53, 59, the documented
\* recurrence (1-based index of the first mismatching bit, multipliers 2, 3, 4)
\* gives 53, 59 and then 67, and the value figure_fifth_value returns is
\* 67 XOR 0x17F. In every run on that input: each debug line that reached stderr,
\* whole or in part, is the line of its pass (43, 47, 53, 59 in this order, all
\* four on a stderr that took every write); when no eprintln! failed the function
\* returned and main inserted that value as "five", and when one failed the run
\* panicked inside the function with nothing inserted or printed; whatever reached
\* stdout is the document with that "five"; and on streams that took every write
\* the run printed the whole document and exited zero.
C11_DocumentedSequence ==
    (pc \in {"parsed", "print", "exit"} /\ pairs = DocumentedPairs) =>
        LET x1 == FigureValue(pairs, KeyOne)
            x2 == FigureValue(pairs, KeyTwo)
            x3 == FigureValue(pairs, KeyThree)
            x4 == FigureValue(pairs, KeyFour)
        IN  /\ <<x1, x2, x3, x4>> = <<43, 47, 53, 59>>
            /\ x2 + (IndexOfFirstMismatchingBit(x1, x2) * 2) = x3
            /\ x3 + (IndexOfFirstMismatchingBit(x2, x3) * 3) = x4
            /\ x4 + (IndexOfFirstMismatchingBit(x3, x4) * 4) = 67
            /\ \A oc \in BOOLEAN : FigureFifthValue(pairs, oc) = Xor(67, XOR_KEY)
            /\ (pc \in {"print", "exit"} /\ stderrCond # "failing") =>
                   object = MapInsert(pairs, KeyFive, FormatFifth(Xor(67, XOR_KEY)))
            /\ (pc \in {"print", "exit"} /\ stderrCond = "writable") =>
                   [i \in 1..Len(stderr) |-> stderr[i].value_xor] = <<43, 47, 53, 59>>
            /\ Len(stderr) <= 4
            /\ \A i \in 1..Len(stderr) :
                   /\ stderr[i].key = FigureKeys[i]
                   /\ stderr[i].value_xor = <<43, 47, 53, 59>>[i]
                   /\ i < Len(stderr) => stderr[i].whole
            /\ stderrCond = "failing" =>
                   /\ pc = "exit"
                   /\ outcome = "panic"
                   /\ object = pairs
                   /\ stdoutPart = "nothing"
                   /\ \A i \in 1..Len(stderr) : ~stderr[i].whole => i = Len(stderr)
            /\ stderrCond # "failing" => \A i \in 1..Len(stderr) : stderr[i].whole
            /\ stdoutPart # "nothing" =>
                   stdout = MapInsert(pairs, KeyFive, FormatFifth(Xor(67, XOR_KEY)))
            /\ (pc = "exit" /\ StreamsTookWrites) =>
                   (outcome = "exit0" /\ stdout = object /\ stdoutPart = "all")

C11_Witness ==
    /\ pc = "exit"
    /\ outcome = "exit0"
    /\ pairs = DocumentedPairs
    /\ stderrCond = "writable"
    /\ Len(stderr) = 4
    /\ stdoutCond = "writable"
    /\ MapGet(stdout, KeyFive) = <<"0", "x", "1", "3", "c">>

\* the first index from p on that holds no whitespace, Len(d) + 1 when there is none
FirstNonWhitespace(d, p) ==
    CHOOSE i \in p..(Len(d) + 1) :
        /\ i = Len(d) + 1 \/ ~IsWhitespace(d[i])
        /\ \A j \in p..(i - 1) : IsWhitespace(d[j])

FirstColon(d, p) == CHOOSE i \in p..Len(d) : d[i] = Colon /\ NoColonFrom(SubSeq(d, 1, i - 1), p)

\* where the format puts the first malformed pair of a text: "InvalidKey" for a key
\* that no ':' ends, "InvalidValue" for a missing opening quote, an escape other
\* than backslash-quote or a missing closing quote, "ok" for a text with none
RECURSIVE FirstMalformed(_, _)
RECURSIVE FirstMalformedInValue(_, _)
FirstMalformed(d, p) ==
    LET k == FirstNonWhitespace(d, p) IN
    IF k > Len(d) THEN "ok"
    ELSE IF NoColonFrom(d, k) THEN "InvalidKey"
    ELSE LET v == FirstNonWhitespace(d, FirstColon(d, k) + 1) IN
         IF Peek(d, v) # Quote THEN "InvalidValue" ELSE FirstMalformedInValue(d, v + 1)

FirstMalformedInValue(d, p) ==
    IF p > Len(d) THEN "InvalidValue"
    ELSE IF d[p] = Quote THEN FirstMalformed(d, p + 1)
    ELSE IF d[p] = Backslash
         THEN IF Peek(d, p + 1) = Quote THEN FirstMalformedInValue(d, p + 2) ELSE "InvalidValue"
         ELSE FirstMalformedInValue(d, p + 1)

ParseEnded == file = "ok" /\ pc \in {"parsed", "failed", "print", "exit"}

\* C12: the first malformed pair of the input decides the result: InvalidKey when
\* its key is malformed, InvalidValue when its value is, whatever precedes or
\* follows it, and no mapping is returned or printed.
C12_FirstMalformedPairDecides ==
    (ParseEnded /\ FirstMalformed(data, 1) # "ok") =>
        /\ err = FirstMalformed(data, 1)
        /\ object = NoObject
        /\ stdout = NoObject

\* the scanner run from the loop head until parse_key has returned
RECURSIVE RunKey(_, _)
RunKey(d, s) == IF s.pc \in {"top", "key_enter", "key"} THEN RunKey(d, Step(d, s)) ELSE s

\* C13: the key returned by parse_key is exactly the text from the first
\* non-whitespace character up to, not including, the first ':' after it: only
\* the whitespace before it is dropped, and it may be empty.
C13_KeyIsVerbatim ==
    LET k == FirstNonWhitespace(data, pos) IN
    (pc = "top" /\ k <= Len(data) /\ ~NoColonFrom(data, k) /\ FirstColon(data, k) < Len(data)) =>
        /\ RunKey(data, Cur).pc = "value_enter"
        /\ RunKey(data, Cur).key = SubSeq(data, k, FirstColon(data, k) - 1)
        /\ RunKey(data, Cur).pos = FirstColon(data, k) + 1

C13_Witness ==
    /\ pc = "value_enter"
    /\ IsWhitespace(Peek(data, 1))
    /\ Len(key) >= 2
    /\ key = SubSeq(data, 2, Len(key) + 1)
    /\ IsWhitespace(key[Len(key)])
    /\ Range(key) \cap {Quote, Backslash} # {}

Scanning == pc \in {"top", "key_enter", "key", "value_enter", "value", "value_closed", "value_eof"}

\* how many steps the scanner can still take without moving the cursor
Rank(p) ==
    CASE p = "value" -> 5
      [] p \in {"value_closed", "value_eof"} -> 4
      [] p = "top" -> 3
      [] p = "key_enter" -> 2
      [] p \in {"key", "value_enter"} -> 1
      [] OTHER -> 0

\* C14: the cursor never moves back and never passes the end of the input, every
\* pass of the top-level, key and value loops that does not end the loop consumes
\* a character, and every step of the scanner either moves the cursor forward or
\* brings the scanner nearer to returning, so the parse returns after a number of
\* steps bounded by the length of the input.
C14_ParseTerminates ==
    /\ pos >= 1
    /\ pos <= Len(data) + 1
    /\ Scanning =>
        LET n == Step(data, Cur) IN
        /\ n.pos >= pos
        /\ n.pos <= Len(data) + 1
        /\ n.pos > pos \/ Rank(n.pc) < Rank(pc)
        /\ (n.pc = pc /\ pc \in {"top", "key", "value"}) => n.pos > pos

C14_Witness ==
    /\ pc = "parsed"
    /\ pos = Len(data) + 1
    /\ Cardinality(pairs) = 2
    /\ \E i \in 1..Len(data) : data[i] = Backslash
    /\ IsWhitespace(Peek(data, 1))

\* C15: in a mapping returned by a successful parse no key contains ':', no key
\* begins with whitespace, and no value contains a backslash.
C15_ReturnedMappingShape ==
    pc = "parsed" =>
        \A e \in pairs :
            /\ Colon \notin Range(e[1])
            /\ e[1] # <<>> => ~IsWhitespace(e[1][1])
            /\ Backslash \notin Range(e[2])

C15_Witness ==
    /\ pc = "parsed"
    /\ IsWhitespace(Peek(data, 1))
    /\ \E i \in 1..Len(data) : data[i] = Backslash
    /\ \E e \in pairs : e[1] # <<>> /\ IsWhitespace(e[1][Len(e[1])]) /\ Quote \in Range(e[2])

\* the value of key k decodes as a 16-bit hexadecimal integer
Decodes(m, k) == k \in MapKeys(m) /\ FromStrRadix16(TrimStartMatches0x(MapGet(m, k))) # Panic

XorValue(m, k) == Xor(FromStrRadix16(TrimStartMatches0x(MapGet(m, k))), XOR_KEY)

\* C16: when the values of one, two, three and four decode as 16-bit hexadecimal
\* integers, every XOR-ed value is a character code, the sum of the XOR-ed four
\* and four times the index of the first mismatching bit fits 16 bits, and
\* figure_fifth_value returns a 16-bit result, so that the run ends with exit 0
\* (on streams that take what is written).
C16_FifthValueFitsU16 ==
    (pc \in {"parsed", "print", "exit"} /\ file = "ok" /\ err = NoError
     /\ \A i \in 1..4 : Decodes(pairs, FigureKeys[i])) =>
        /\ \A i \in 1..4 : IsChar(XorValue(pairs, FigureKeys[i]))
        /\ XorValue(pairs, KeyFour)
             + (IndexOfFirstMismatchingBit(XorValue(pairs, KeyThree), XorValue(pairs, KeyFour)) * 4)
             <= U16Max
        /\ \A oc \in BOOLEAN : FigureFifthValue(pairs, oc) \in 0..U16Max
        /\ (pc = "exit" /\ StreamsTookWrites) => outcome = "exit0"

====
